---- MODULE Spec2Model ----
(***************************************************************************)
(* jitdash: a Jenkins dashboard generator.  The model follows the          *)
(* concurrent snapshot (src/unnamed/part_000): main reads a configuration, *)
(* builds the instances, extracts folders/jobs/builds sequentially, fills  *)
(* in the build details with a pool of worker goroutines fed by a buffered *)
(* channel, joins them and renders one sparkline per job.                  *)
(*                                                                         *)
(* JSON values are modelled as tagged records [t, v]; an object's value is *)
(* a function from keys to JSON values.  Strings such as URLs are kept as  *)
(* sequences of tokens so that concatenation is \o.                        *)
(***************************************************************************)
EXTENDS Integers, Sequences, FiniteSets, TLC

(***************************************************************************)
(* Bounds of the model.                                                    *)
(***************************************************************************)
\* workers in the pool and capacity of both channels (100 in the source,
\* scaled down so that the interleavings can be enumerated)
workerCount == 2
\* builds created by extraction, over all jobs
MaxRefs == 3
\* jobs accepted by extraction, over all instances
MaxJobs == 2
\* entries of one folder's "jobs" array
MaxJobObjects == 1
\* largest build number and largest failCount served by the upstream
MaxId == 2
MaxFail == 2
MaxWindowFail == 4
MaxShown == 3
\* entries of a build page's "actions" array
MaxActions == 3

(***************************************************************************)
(* JSON values and the JsonObject accessors.                               *)
(***************************************************************************)
JNull == [t |-> "null"]
JStr(s) == [t |-> "str", v |-> s]
JNum(n) == [t |-> "num", v |-> n]
JBool(b) == [t |-> "bool", v |-> b]
JArr(a) == [t |-> "arr", v |-> a]
JObj(o) == [t |-> "obj", v |-> o]

\* an optional member of an object: k :> val when present, nothing otherwise
Member(present, k, val) == IF present THEN k :> val ELSE [x \in {} |-> JNull]

AsJsonObject(i) ==
    IF i.t = "obj" THEN [val |-> i.v, ok |-> TRUE]
    ELSE [val |-> [x \in {} |-> JNull], ok |-> FALSE]

GetString(o, key) ==
    IF key \notin DOMAIN o THEN [val |-> "", ok |-> FALSE]
    ELSE IF o[key].t = "str" THEN [val |-> o[key].v, ok |-> TRUE]
    ELSE [val |-> "", ok |-> FALSE]

\* the decoder yields float64 numbers; the modelled numbers are integral, so
\* int64(v) is v
GetInt64(o, key) ==
    IF key \notin DOMAIN o THEN [val |-> 0, ok |-> FALSE]
    ELSE IF o[key].t = "num" THEN [val |-> o[key].v, ok |-> TRUE]
    ELSE [val |-> 0, ok |-> FALSE]

GetBool(o, key) ==
    IF key \notin DOMAIN o THEN [val |-> FALSE, ok |-> FALSE]
    ELSE IF o[key].t = "bool" THEN [val |-> o[key].v, ok |-> TRUE]
    ELSE [val |-> FALSE, ok |-> FALSE]

GetObject(o, key) ==
    IF key \notin DOMAIN o THEN [val |-> [x \in {} |-> JNull], ok |-> FALSE]
    ELSE AsJsonObject(o[key])

GetArray(o, key) ==
    IF key \notin DOMAIN o THEN [val |-> <<>>, ok |-> FALSE]
    ELSE IF o[key].t = "arr" THEN [val |-> o[key].v, ok |-> TRUE]
    ELSE [val |-> <<>>, ok |-> FALSE]

(***************************************************************************)
(* The outside world: what stdin and the Jenkins instances may serve.      *)
(***************************************************************************)
\* the outcome of an http.Get followed by json Decode into a JsonObject
HttpError == [kind |-> "error"]
Undecodable == [kind |-> "undecodable"]
Decoded(o) == [kind |-> "json", body |-> o]

FolderClass == "com.cloudbees.hudson.plugins.folder.Folder"
JobClass == "hudson.model.FreeStyleProject"
BuildClass == "hudson.model.FreeStyleBuild"
TestResultClass == "hudson.tasks.junit.TestResultAction"

JobNames == {"a", "b"}
PatternStrings == {"zz", "^a", "("}

\* regexp.Compile and Regexp.MatchString on the strings above
Compiles(estr) == estr # "("
MatchString(ex, name) == ex = "^a" /\ name = "a"

SeqsUpTo(S, k) == UNION {[1..m -> S] : m \in 0..k}

GoodInstance1 == JObj("folders" :> JArr(<<JStr("f1/")>>))
GoodInstance2 ==
    JObj("folders" :> JArr(<<JStr("f1/"), JStr("f2/")>>)
         @@ "exclude" :> JArr(<<JStr("zz"), JStr("^a")>>))
GoodInstance3 ==
    JObj("folders" :> JArr(<<JStr("f3/")>>) @@ "exclude" :> JArr(<<JStr("^a")>>))
BadInstances ==
    { JNum(1),
      JObj("exclude" :> JArr(<<>>)),
      JObj("folders" :> JArr(<<JStr("f1/"), JNum(2)>>)),
      JObj("folders" :> JArr(<<JStr("f1/")>>) @@ "exclude" :> JArr(<<JStr("^a"), JBool(TRUE)>>)),
      JObj("folders" :> JArr(<<JStr("f1/")>>) @@ "exclude" :> JArr(<<JStr("^a"), JStr("(")>>)) }
\* the configurations read from stdin: each retention setting with a layout
\* of instances, and every way an instance object can be malformed
ConfigInputs ==
    { JObj("maxHistory" :> JNum(1)
           @@ "instances" :> JObj("i1" :> GoodInstance1 @@ "i2" :> GoodInstance3)),
      JObj("maxBuilds" :> JNum(1) @@ "instances" :> JObj("i1" :> GoodInstance2)),
      JObj("maxBuilds" :> JNum(-1) @@ "maxHistory" :> JNum(1)
           @@ "instances" :> JObj("i1" :> GoodInstance1)),
      JObj("maxBuilds" :> JNum(1)) }
    \cup {JObj("instances" :> JObj("i1" :> GoodInstance1 @@ "i2" :> x)) : x \in BadInstances}

StdinInputs == {Undecodable} \cup {Decoded(c.v) : c \in ConfigInputs}

JobUrl(name) == IF name = "a" THEN "ja/" ELSE "jb/"
JobObjectInputs ==
    { JNum(7),
      JObj("_class" :> JStr(FolderClass) @@ "name" :> JStr("a") @@ "url" :> JStr("ja/")),
      JObj("_class" :> JStr(JobClass) @@ "url" :> JStr("ja/")),
      JObj("_class" :> JStr(JobClass) @@ "name" :> JStr("b")) }
    \cup {JObj("_class" :> JStr(JobClass) @@ "name" :> JStr(nm) @@ "url" :> JStr(JobUrl(nm))) :
            nm \in JobNames}

FolderInputs ==
    { HttpError, Undecodable,
      Decoded("_class" :> JStr(FolderClass)),
      Decoded("_class" :> JStr(FolderClass) @@ "jobs" :> JStr("none")) }
    \cup {Decoded(Member(tagged, "_class", JStr(FolderClass)) @@ "jobs" :> JArr(js)) :
            tagged \in BOOLEAN, js \in SeqsUpTo(JobObjectInputs, MaxJobObjects)}

BuildUrl(id) == IF id = 1 THEN "b1/" ELSE IF id = 2 THEN "b2/" ELSE "bn/"
BuildObjectInputs ==
    { JNum(0),
      JObj("_class" :> JStr("hudson.model.Run") @@ "number" :> JNum(1) @@ "url" :> JStr("b1/")),
      JObj("_class" :> JStr(BuildClass) @@ "url" :> JStr("b1/")),
      JObj("_class" :> JStr(BuildClass) @@ "number" :> JNum(1)) }
    \cup {JObj("_class" :> JStr(BuildClass) @@ "number" :> JNum(id) @@ "url" :> JStr(BuildUrl(id))) :
            id \in 1..MaxId}

JobListingInputs ==
    { HttpError, Undecodable, Decoded("_class" :> JStr(JobClass)) }
    \cup {Decoded("_class" :> JStr(JobClass) @@ "builds" :> JArr(bs)) :
            bs \in SeqsUpTo(BuildObjectInputs, MaxRefs)}

(***************************************************************************)
(* Instance, Job and Build, and the extraction functions.                  *)
(***************************************************************************)
ZeroTime == [set |-> FALSE, sec |-> 0]
UnixTime(sec) == [set |-> TRUE, sec |-> sec]

NoInstance == [Name |-> "", Folders |-> <<>>, Exclude |-> <<>>]
NoBuild == [Id |-> 0, Url |-> "", Timestamp |-> ZeroTime, Failures |-> 0, Complete |-> FALSE]
NoJob == [Name |-> "", Url |-> "", Builds |-> <<>>]

\* the smallest index of s at which P holds, Len(s) + 1 when there is none
FirstIndex(s, P(_)) ==
    IF \E k \in 1..Len(s) : P(s[k])
    THEN CHOOSE k \in 1..Len(s) : P(s[k]) /\ \A m \in 1..(k - 1) : ~P(s[m])
    ELSE Len(s) + 1

ProcessInstanceObject(instanceIf, name) ==
    LET instanceObject == AsJsonObject(instanceIf)
        foldersArray == GetArray(instanceObject.val, "folders")
        excludeArray == GetArray(instanceObject.val, "exclude")
        NotString(x) == x.t # "str"
        BadExclude(e) == e.t # "str" \/ ~Compiles(e.v)
        firstBad == FirstIndex(excludeArray.val, BadExclude)
        folders == [k \in 1..Len(foldersArray.val) |-> <<foldersArray.val[k].v, "api/json">>]
        exclude == [k \in 1..Len(excludeArray.val) |-> excludeArray.val[k].v]
    IN  IF ~instanceObject.ok THEN [val |-> NoInstance, err |-> "is not an object"]
        ELSE IF ~foldersArray.ok THEN [val |-> NoInstance, err |-> "specifies no folders"]
        ELSE IF \E k \in 1..Len(foldersArray.val) : NotString(foldersArray.val[k])
        THEN [val |-> NoInstance, err |-> "contains an invalid folder"]
        ELSE IF excludeArray.ok /\ firstBad <= Len(excludeArray.val)
        THEN [val |-> NoInstance,
              err |-> IF NotString(excludeArray.val[firstBad])
                      THEN "contains an invalid exclude"
                      ELSE "contains an invalid exclude (pattern)"]
        ELSE [val |-> [Name |-> name, Folders |-> folders, Exclude |-> exclude],
              err |-> "nil"]

ProcessBuildObject(buildIf) ==
    LET build == AsJsonObject(buildIf)
        class == GetString(build.val, "_class")
        id == GetInt64(build.val, "number")
        url == GetString(build.val, "url")
    IN  IF ~build.ok THEN [val |-> NoBuild, ok |-> FALSE]
        ELSE IF ~class.ok \/ class.val # BuildClass THEN [val |-> NoBuild, ok |-> FALSE]
        ELSE IF ~id.ok THEN [val |-> NoBuild, ok |-> FALSE]
        ELSE IF ~url.ok THEN [val |-> NoBuild, ok |-> FALSE]
        ELSE [val |-> [NoBuild EXCEPT !.Id = id.val, !.Url = url.val], ok |-> TRUE]

\* BuildSorter.Less
Less(x, y) == x.Id < y.Id

IsSortedBy(s, LessOp(_, _)) == \A k \in 1..(Len(s) - 1) : ~LessOp(s[k + 1], s[k])

Reorderings(s) ==
    { [k \in 1..Len(s) |-> s[p[k]]] :
        p \in {q \in [1..Len(s) -> 1..Len(s)] : \A x, y \in 1..Len(s) : q[x] = q[y] => x = y} }

\* SortSort with the sort left out
SortSortOmitted(builds) == {builds}

\* sort.Sort(BuildSorter(builds)): not stable, so every ordered permutation
\* is a possible outcome
SortSort(builds) == {s \in Reorderings(builds) : IsSortedBy(s, Less)}

\* the builds of a job's "builds" array that ProcessBuildObject accepts, in order
RECURSIVE AcceptedBuilds(_)
AcceptedBuilds(buildObjects) ==
    IF buildObjects = <<>> THEN <<>>
    ELSE LET r == ProcessBuildObject(Head(buildObjects))
         IN  (IF r.ok THEN <<r.val>> ELSE <<>>) \o AcceptedBuilds(Tail(buildObjects))

\* Excluded with the loop returning after its first pattern
ExcludedFirstPatternOnly(i, name) == Len(i.Exclude) >= 1 /\ MatchString(i.Exclude[1], name)

Excluded(i, name) == \E k \in 1..Len(i.Exclude) : MatchString(i.Exclude[k], name)

\* ProcessJobObject up to the sort: resp is what http.Get(url + "api/json")
\* and the decoder yield if the request is made; requested tells whether it
\* was, excluded whether "excluded job" was logged.  The job's Builds are the
\* accepted builds before sort.Sort.
ProcessJobObject(i, jobIf, resp) ==
    LET job == AsJsonObject(jobIf)
        class == GetString(job.val, "_class")
        name == GetString(job.val, "name")
        url == GetString(job.val, "url")
        buildObjects == GetArray(resp.body, "builds")
        Skip(req) == [val |-> NoJob, ok |-> FALSE, requested |-> req, name |-> name.val,
                      excluded |-> FALSE]
    IN  IF ~job.ok THEN Skip(FALSE)
        ELSE IF ~class.ok \/ class.val # JobClass THEN Skip(FALSE)
        ELSE IF ~name.ok THEN Skip(FALSE)
        ELSE IF Excluded(i, name.val) THEN [Skip(FALSE) EXCEPT !.excluded = TRUE]
        ELSE IF ~url.ok THEN Skip(FALSE)
        ELSE IF resp.kind # "json" THEN Skip(TRUE)
        ELSE IF ~buildObjects.ok THEN Skip(TRUE)
        ELSE [val |-> [Name |-> name.val, Url |-> url.val,
                       Builds |-> AcceptedBuilds(buildObjects.val)],
              ok |-> TRUE, requested |-> TRUE, name |-> name.val, excluded |-> FALSE]

(***************************************************************************)
(* Build.FetchDetails.                                                     *)
(***************************************************************************)
\* integer division truncating toward zero, as Go's / on integers and as
\* int(x) on a float64 quotient
TruncDiv(x, y) == IF (x >= 0) = (y > 0) THEN x \div y ELSE -((-x) \div y)

\* ScanActions with the loop left at the first test-result action
RECURSIVE ScanActionsFirstWins(_, _)
ScanActionsFirstWins(actions, acc) ==
    IF actions = <<>> THEN acc
    ELSE LET action == AsJsonObject(Head(actions))
             class == GetString(action.val, "_class")
         IN  IF ~action.ok THEN ScanActionsFirstWins(Tail(actions), acc)
             ELSE IF ~class.ok \/ class.val # TestResultClass
             THEN ScanActionsFirstWins(Tail(actions), acc)
             ELSE GetInt64(action.val, "failCount").val

\* the loop over details["actions"]: failures after the entries of actions,
\* starting from acc
RECURSIVE ScanActions(_, _)
ScanActions(actions, acc) ==
    IF actions = <<>> THEN acc
    ELSE LET action == AsJsonObject(Head(actions))
             class == GetString(action.val, "_class")
         IN  IF ~action.ok THEN ScanActions(Tail(actions), acc)
             ELSE IF ~class.ok \/ class.val # TestResultClass
             THEN ScanActions(Tail(actions), acc)
             ELSE ScanActions(Tail(actions), GetInt64(action.val, "failCount").val)

\* FetchDetails with b.Complete assigned before the timestamp is looked up
FetchDetailsCompleteFirst(b, resp) ==
    LET details == resp.body
        result == GetString(details, "result")
        unixMilliseconds == GetInt64(details, "timestamp")
        buildingIf == GetBool(details, "building")
        building == IF buildingIf.ok THEN buildingIf.val ELSE result.val = ""
        actions == GetArray(details, "actions")
        scanned == IF actions.ok THEN ScanActions(actions.val, 0) ELSE 0
        failures == IF scanned = 0 /\ result.val = "FAILURE" THEN -1 ELSE scanned
    IN  IF resp.kind = "error" THEN [b |-> b, err |-> "transport"]
        ELSE IF resp.kind = "undecodable" THEN [b |-> b, err |-> "decode"]
        ELSE IF ~result.ok THEN [b |-> b, err |-> "missing result"]
        ELSE IF ~unixMilliseconds.ok
        THEN [b |-> [b EXCEPT !.Complete = ~building], err |-> "missing timestamp"]
        ELSE [b |-> [b EXCEPT !.Timestamp = UnixTime(TruncDiv(unixMilliseconds.val, 1000)),
                              !.Complete = ~building,
                              !.Failures = failures],
              err |-> "nil"]

\* resp is what http.Get(b.Url + "api/json") and the decoder yield
FetchDetails(b, resp) ==
    LET details == resp.body
        result == GetString(details, "result")
        unixMilliseconds == GetInt64(details, "timestamp")
        buildingIf == GetBool(details, "building")
        building == IF buildingIf.ok THEN buildingIf.val ELSE result.val = ""
        actions == GetArray(details, "actions")
        scanned == IF actions.ok THEN ScanActions(actions.val, 0) ELSE 0
        failures == IF scanned = 0 /\ result.val = "FAILURE" THEN -1 ELSE scanned
    IN  IF resp.kind = "error" THEN [b |-> b, err |-> "transport"]
        ELSE IF resp.kind = "undecodable" THEN [b |-> b, err |-> "decode"]
        ELSE IF ~result.ok THEN [b |-> b, err |-> "missing result"]
        ELSE IF ~unixMilliseconds.ok THEN [b |-> b, err |-> "missing timestamp"]
        ELSE [b |-> [b EXCEPT !.Timestamp = UnixTime(TruncDiv(unixMilliseconds.val, 1000)),
                              !.Complete = ~building,
                              !.Failures = failures],
              err |-> "nil"]

TestResult(fc) == JObj("_class" :> JStr(TestResultClass) @@ "failCount" :> JNum(fc))

\* the build pages served during a run: each way to fail, a finished build
\* with a failCount below -1, a finished build with failures and a build still
\* running that already reports failures
DetailInputs ==
    { HttpError, Undecodable,
      Decoded("result" :> JStr("SUCCESS") @@ "timestamp" :> JNum(1500)
              @@ "building" :> JBool(FALSE) @@ "actions" :> JArr(<<TestResult(-2)>>)),
      Decoded("timestamp" :> JNum(1500) @@ "result" :> JNull),
      Decoded("result" :> JStr("SUCCESS")),
      Decoded("result" :> JStr("FAILURE") @@ "timestamp" :> JNum(1500)
              @@ "building" :> JBool(FALSE) @@ "actions" :> JArr(<<TestResult(MaxFail)>>)),
      Decoded("result" :> JStr("") @@ "timestamp" :> JNum(2500)
              @@ "actions" :> JArr(<<TestResult(1)>>)) }

(***************************************************************************)
(* Job.RenderHistory.                                                      *)
(***************************************************************************)
sparks == <<"U+2581", "U+2582", "U+2583", "U+2584", "U+2585", "U+2586", "U+2587", "U+2588">>

\* the first loop: the largest Failures of the builds from start on, at least 0
RECURSIVE MaxFailures(_, _, _)
MaxFailures(builds, i, max) ==
    IF i > Len(builds) THEN max
    ELSE MaxFailures(builds, i + 1, IF builds[i].Failures > max THEN builds[i].Failures ELSE max)

\* SparkIndex with the quotient scaled by len(sparks) - 1
SparkIndexSevenBuckets(f, max) == 1 + TruncDiv(f * (Len(sparks) - 1), max)

\* the index into sparks of the default case (0-based, as in the source);
\* float64(f) / float64(max) * 6 truncated agrees with the integer quotient
SparkIndex(f, max) == 1 + TruncDiv(f * (Len(sparks) - 2), max)

Anchor(build, label, count, spark) ==
    [kind |-> "a", href |-> build.Url, title |-> label, count |-> count, spark |-> spark]

\* what the second loop prints for one build; panics when the index leaves sparks
RenderBuild(build, max) ==
    IF build.Complete
    THEN IF build.Failures = 0 THEN [panic |-> FALSE, out |-> Anchor(build, "Passed", 0, sparks[1])]
         ELSE IF build.Failures = -1
         THEN [panic |-> FALSE, out |-> Anchor(build, "Failed", 0, sparks[Len(sparks)])]
         ELSE IF max = 0 \/ SparkIndex(build.Failures, max) \notin 0..(Len(sparks) - 1)
         THEN [panic |-> TRUE, out |-> Anchor(build, "", 0, "")]
         ELSE [panic |-> FALSE,
               out |-> Anchor(build, "failures", build.Failures,
                              sparks[SparkIndex(build.Failures, max) + 1])]
    ELSE [panic |-> FALSE, out |-> Anchor(build, "building", 0, "B")]

\* count after the padding loop "for ; count > len(job.Builds); count--"
Clamp(count, len) == IF count > len THEN len ELSE count

RenderHistory(job, count) ==
    LET len == Len(job.Builds)
        pad == IF count > len THEN count - len ELSE 0
        start == len - Clamp(count, len)
        max == MaxFailures(job.Builds, start + 1, 0)
        shown == [k \in 1..(len - start) |-> RenderBuild(job.Builds[start + k], max)]
    IN  [panic |-> \E k \in 1..(len - start) : shown[k].panic,
         out |-> [k \in 1..pad |-> [kind |-> "pad", spark |-> sparks[1]]]
                 \o [k \in 1..(len - start) |-> shown[k].out]]

(***************************************************************************)
(* The state of a run.                                                     *)
(***************************************************************************)
Workers == 1..workerCount

\* a *Build: the place of the build in jobs
Ptr(in, ij, ib) == <<in, ij, ib>>
NoPtr == <<0, 0, 0>>

\* FetchJobs' local folder has no "_class", or FetchJobs is not in the loop
\* over a folder's jobs
NoClass == GetString([x \in {} |-> JNull], "_class")

VARIABLES
    pc,              \* where main is
    stdin,           \* what the decoder reads from os.Stdin
    served,          \* the build page of the upstream, when it serves one page only
    maxBuilds, maxHistory,
    instancesObject, \* config["instances"]
    ranged,          \* keys of instancesObject the range loop has visited
    instances,       \* []*Instance
    jobs,            \* [][]*Job
    n,               \* main's index into instances (extraction, enqueueing, rendering)
    fjobs,           \* FetchJobs' local jobs
    f,               \* FetchJobs' index into i.Folders
    jobObjects,      \* the entries of the current folder still to be processed
    folderClass,     \* folder.GetString("_class") of the folder they come from
    j, k,            \* main's indices into jobs[n] and its Builds; k = 0 before the truncation
    i,               \* main's counter in the loops over workerCount
    work, workClosed,\* the channel work: its buffer, and whether it is closed
    done, doneClosed,\* the channel done: the number of buffered values, and whether it is closed
    wpc,             \* where each worker goroutine is
    cur,             \* the build each worker holds
    stdout,          \* the sparklines printed, one per job
    requests,        \* every http.Get of a folder or job page issued so far (history)
    excludedLog,     \* the "excluded job" lines logged, as <<instance, job>>
    calls,           \* how often FetchDetails was called on each build (history)
    errored          \* the builds whose FetchDetails returned an error (history)

configVars == <<stdin, served, maxBuilds, maxHistory, instancesObject, ranged>>
extractVars == <<instances, fjobs, f, jobObjects, folderClass>>
chanVars == <<work, workClosed, done, doneClosed>>
workerVars == <<wpc, cur, calls, errored>>
histVars == <<requests, excludedLog>>
vars == <<pc, configVars, extractVars, jobs, n, j, k, i, chanVars, workerVars, stdout, histVars>>

Init ==
    /\ pc = "config"
    /\ stdin \in StdinInputs
    /\ served = HttpError
    /\ maxBuilds = 0
    /\ maxHistory = 0
    /\ instancesObject = [x \in {} |-> JNull]
    /\ ranged = {}
    /\ instances = <<>>
    /\ jobs = <<>>
    /\ n = 1
    /\ fjobs = <<>>
    /\ f = 1
    /\ jobObjects = <<>>
    /\ folderClass = NoClass
    /\ j = 1
    /\ k = 0
    /\ i = 0
    /\ work = <<>>
    /\ workClosed = FALSE
    /\ done = 0
    /\ doneClosed = FALSE
    /\ wpc = [w \in Workers |-> "unborn"]
    /\ cur = [w \in Workers |-> NoPtr]
    /\ stdout = <<>>
    /\ requests = {}
    /\ excludedLog = {}
    /\ calls = [x \in {} |-> 0]
    /\ errored = {}

Min(x, y) == IF x < y THEN x ELSE y

\* main, from the decoding of the configuration to config.GetObject("instances")
ReadConfig ==
    /\ pc = "config"
    /\ IF stdin.kind # "json"
       THEN /\ pc' = "exit"
            /\ UNCHANGED <<maxBuilds, maxHistory, instancesObject>>
       ELSE LET config == stdin.body
                mb == GetInt64(config, "maxBuilds")
                mh == GetInt64(config, "maxHistory")
                io == GetObject(config, "instances")
                builds == IF mb.ok THEN mb.val ELSE 10
                history == IF mh.ok THEN mh.val ELSE 10
            IN  /\ maxBuilds' = builds
                /\ maxHistory' = Min(history, builds)
                /\ instancesObject' = io.val
                /\ pc' = IF io.ok THEN "instances" ELSE "exit"
    /\ UNCHANGED <<stdin, served, ranged, extractVars, jobs, n, j, k, i, chanVars, workerVars,
                   stdout, histVars>>

\* ProcessInstance with a malformed instance skipped instead of fatal
ProcessInstanceSkipMalformed ==
    /\ pc = "instances"
    /\ \E key \in DOMAIN instancesObject \ ranged :
         LET r == ProcessInstanceObject(instancesObject[key], key)
         IN  /\ ranged' = ranged \cup {key}
             /\ instances' = IF r.err # "nil" THEN instances ELSE Append(instances, r.val)
    /\ UNCHANGED <<pc, stdin, served, maxBuilds, maxHistory, instancesObject, fjobs, f,
                   jobObjects, folderClass,
                   jobs, n, j, k, i, chanVars, workerVars, stdout, histVars>>

\* one iteration of "for k, v := range instancesObject"
ProcessInstance ==
    /\ pc = "instances"
    /\ \E key \in DOMAIN instancesObject \ ranged :
         LET r == ProcessInstanceObject(instancesObject[key], key)
         IN  /\ ranged' = ranged \cup {key}
             /\ IF r.err # "nil"
                THEN pc' = "exit" /\ UNCHANGED instances
                ELSE pc' = "instances" /\ instances' = Append(instances, r.val)
    /\ UNCHANGED <<stdin, served, maxBuilds, maxHistory, instancesObject, fjobs, f,
                   jobObjects, folderClass,
                   jobs, n, j, k, i, chanVars, workerVars, stdout, histVars>>

\* the range loop over instancesObject ends
InstancesDone ==
    /\ pc = "instances"
    /\ ranged = DOMAIN instancesObject
    /\ pc' = "extract"
    /\ UNCHANGED <<configVars, extractVars, jobs, n, j, k, i, chanVars, workerVars,
                   stdout, histVars>>

Request(kind, inst, what) == [kind |-> kind, inst |-> inst, what |-> what]

Flatten(ss) ==
    LET RECURSIVE Cat(_)
        Cat(s) == IF s = <<>> THEN <<>> ELSE Head(s) \o Cat(Tail(s))
    IN  Cat(ss)

TotalBuilds(js) ==
    LET RECURSIVE Sum(_)
        Sum(s) == IF s = <<>> THEN 0 ELSE Len(Head(s).Builds) + Sum(Tail(s))
    IN  Sum(js)

\* FetchJobs: one iteration of "for _, folderUrl := range i.Folders" up to the
\* loop over the folder's jobs
FetchFolder ==
    /\ pc = "extract"
    /\ n <= Len(instances)
    /\ jobObjects = <<>>
    /\ f <= Len(instances[n].Folders)
    /\ \E resp \in FolderInputs :
         LET arr == GetArray(resp.body, "jobs")
             js == IF resp.kind = "json" /\ arr.ok THEN arr.val ELSE <<>>
         IN  /\ jobObjects' = js
             /\ f' = IF js = <<>> THEN f + 1 ELSE f
             /\ folderClass' = IF js = <<>> THEN NoClass ELSE GetString(resp.body, "_class")
    /\ requests' = requests \cup {Request("folder", instances[n].Name, instances[n].Folders[f])}
    /\ UNCHANGED <<pc, configVars, instances, fjobs, jobs, n, j, k, i, chanVars, workerVars,
                   stdout, excludedLog>>

\* FetchJobs: one iteration of "for _, j := range jobObjects", ProcessJobObject
\* and its sort.Sort included
ProcessJob ==
    /\ pc = "extract"
    /\ jobObjects # <<>>
    /\ \E resp \in JobListingInputs :
         LET inst == instances[n]
             r == ProcessJobObject(inst, Head(jobObjects), resp)
         IN  /\ r.requested \/ resp = HttpError
             /\ r.ok => /\ Len(Flatten(jobs)) + Len(fjobs) < MaxJobs
                        /\ TotalBuilds(Flatten(jobs) \o fjobs) + Len(r.val.Builds) <= MaxRefs
             /\ \E sorted \in SortSort(r.val.Builds) :
                  fjobs' = IF r.ok THEN Append(fjobs, [r.val EXCEPT !.Builds = sorted])
                           ELSE fjobs
             /\ requests' = IF r.requested
                            THEN requests \cup {Request("job", inst.Name, r.name)}
                            ELSE requests
             /\ excludedLog' = IF r.excluded
                               THEN excludedLog \cup {<<inst.Name, r.name>>}
                               ELSE excludedLog
    /\ jobObjects' = Tail(jobObjects)
    /\ f' = IF Tail(jobObjects) = <<>> THEN f + 1 ELSE f
    /\ folderClass' = IF Tail(jobObjects) = <<>> THEN NoClass ELSE folderClass
    /\ UNCHANGED <<pc, configVars, instances, jobs, n, j, k, i, chanVars, workerVars, stdout>>

\* FetchJobs returns and main appends its result to jobs
FetchJobsReturn ==
    /\ pc = "extract"
    /\ n <= Len(instances)
    /\ jobObjects = <<>>
    /\ f > Len(instances[n].Folders)
    /\ jobs' = Append(jobs, fjobs)
    /\ fjobs' = <<>>
    /\ f' = 1
    /\ n' = n + 1
    /\ UNCHANGED <<pc, configVars, instances, jobObjects, folderClass, j, k, i, chanVars,
                   workerVars,
                   stdout, histVars>>

\* the loop over instances ends; main makes the channels
ExtractDone ==
    /\ pc = "extract"
    /\ n > Len(instances)
    /\ pc' = "spawn"
    /\ i' = 0
    /\ UNCHANGED <<configVars, extractVars, jobs, n, j, k, chanVars, workerVars, stdout,
                   histVars>>

(***************************************************************************)
(* main: the worker pool, the enqueueing, the join.                        *)
(***************************************************************************)
\* the process is alive: main has neither returned, exited nor panicked
Running == pc \notin {"exit", "panic", "done"}

\* SpawnWorker with the workers started before the extraction loop has ended
SpawnWorkerBeforeExtraction ==
    /\ pc \in {"extract", "spawn"}
    /\ i < workerCount
    /\ wpc' = [wpc EXCEPT ![i + 1] = "range"]
    /\ i' = i + 1
    /\ UNCHANGED <<pc, configVars, extractVars, jobs, n, j, k, chanVars, cur, calls, errored,
                   stdout, histVars>>

\* one iteration of the loop that starts the workers
SpawnWorker ==
    /\ pc = "spawn"
    /\ i < workerCount
    /\ wpc' = [wpc EXCEPT ![i + 1] = "range"]
    /\ i' = i + 1
    /\ UNCHANGED <<pc, configVars, extractVars, jobs, n, j, k, chanVars, cur, calls, errored,
                   stdout, histVars>>

\* the place the loops over jobs, ja and j.Builds reach from <<in, ij, ib>>:
\* a job not yet truncated (ib = 0), a build of a job, or the end (in > Len(js))
RECURSIVE LoopPlace(_, _, _, _)
LoopPlace(js, in, ij, ib) ==
    IF in > Len(js) THEN <<in, 1, 0>>
    ELSE IF ij > Len(js[in]) THEN LoopPlace(js, in + 1, 1, 0)
    ELSE IF ib = 0 THEN <<in, ij, 0>>
    ELSE IF ib > Len(js[in][ij].Builds) THEN LoopPlace(js, in, ij + 1, 0)
    ELSE <<in, ij, ib>>

MoveTo(place) == n' = place[1] /\ j' = place[2] /\ k' = place[3]

\* the workers are started; main goes on to the loops over jobs
SpawnDone ==
    /\ pc = "spawn"
    /\ i = workerCount
    /\ pc' = "enqueue"
    /\ MoveTo(LoopPlace(jobs, 1, 1, 0))
    /\ UNCHANGED <<configVars, extractVars, jobs, i, chanVars, workerVars, stdout, histVars>>

\* "if len(j.Builds) > int(maxBuilds) { j.Builds = j.Builds[len(j.Builds) - int(maxBuilds):] }":
\* a slice expression whose low bound exceeds the length panics
TruncateBuilds(builds, max) ==
    IF Len(builds) > max
    THEN IF Len(builds) - max > Len(builds)
         THEN [panic |-> TRUE, builds |-> builds]
         ELSE [panic |-> FALSE, builds |-> SubSeq(builds, Len(builds) - max + 1, Len(builds))]
    ELSE [panic |-> FALSE, builds |-> builds]

Truncate ==
    /\ pc = "enqueue"
    /\ n <= Len(jobs)
    /\ k = 0
    /\ LET r == TruncateBuilds(jobs[n][j].Builds, maxBuilds)
       IN  IF r.panic
           THEN pc' = "panic" /\ UNCHANGED <<jobs, n, j, k>>
           ELSE /\ jobs' = [jobs EXCEPT ![n][j].Builds = r.builds]
                /\ MoveTo(LoopPlace(jobs', n, j, 1))
                /\ pc' = pc
    /\ UNCHANGED <<configVars, extractVars, i, chanVars, workerVars, stdout, histVars>>

\* "work <- b": blocks while the buffer is full
Send ==
    /\ pc = "enqueue"
    /\ n <= Len(jobs)
    /\ k >= 1
    /\ Len(work) < workerCount
    /\ work' = Append(work, Ptr(n, j, k))
    /\ MoveTo(LoopPlace(jobs, n, j, k + 1))
    /\ UNCHANGED <<pc, configVars, extractVars, jobs, i, workClosed, done, doneClosed,
                   workerVars, stdout, histVars>>

CloseWork ==
    /\ pc = "enqueue"
    /\ n > Len(jobs)
    /\ workClosed' = TRUE
    /\ pc' = "join"
    /\ i' = 0
    /\ UNCHANGED <<configVars, extractVars, jobs, n, j, k, work, done, doneClosed,
                   workerVars, stdout, histVars>>

\* "<-done": blocks while the buffer is empty
Join ==
    /\ pc = "join"
    /\ i < workerCount
    /\ done > 0
    /\ done' = done - 1
    /\ i' = i + 1
    /\ UNCHANGED <<pc, configVars, extractVars, jobs, n, j, k, work, workClosed, doneClosed,
                   workerVars, stdout, histVars>>

\* CloseDone with the join loop one receive short
CloseDoneOneShort ==
    /\ pc = "join"
    /\ i >= workerCount - 1
    /\ doneClosed' = TRUE
    /\ pc' = "render"
    /\ MoveTo(LoopPlace(jobs, 1, 1, 0))
    /\ UNCHANGED <<configVars, extractVars, jobs, i, work, workClosed, done, workerVars,
                   stdout, histVars>>

CloseDone ==
    /\ pc = "join"
    /\ i = workerCount
    /\ doneClosed' = TRUE
    /\ pc' = "render"
    /\ MoveTo(LoopPlace(jobs, 1, 1, 0))
    /\ UNCHANGED <<configVars, extractVars, jobs, i, work, workClosed, done, workerVars,
                   stdout, histVars>>

\* one iteration of the loop over jobs[n]: RenderHistory and the row printed
Render ==
    /\ pc = "render"
    /\ n <= Len(jobs)
    /\ LET r == RenderHistory(jobs[n][j], maxHistory)
       IN  IF r.panic
           THEN pc' = "panic" /\ UNCHANGED <<stdout, n, j, k>>
           ELSE /\ stdout' = Append(stdout, [at |-> <<n, j>>, history |-> r.out])
                /\ MoveTo(LoopPlace(jobs, n, j + 1, 0))
                /\ pc' = pc
    /\ UNCHANGED <<configVars, extractVars, jobs, i, chanVars, workerVars, histVars>>

RenderDone ==
    /\ pc = "render"
    /\ n > Len(jobs)
    /\ pc' = "done"
    /\ UNCHANGED <<configVars, extractVars, jobs, n, j, k, i, chanVars, workerVars, stdout,
                   histVars>>

(***************************************************************************)
(* The worker goroutines.                                                  *)
(***************************************************************************)
\* "for b := range w": a value is received
Recv(w) ==
    /\ Running
    /\ wpc[w] = "range"
    /\ work # <<>>
    /\ cur' = [cur EXCEPT ![w] = Head(work)]
    /\ work' = Tail(work)
    /\ wpc' = [wpc EXCEPT ![w] = "fetch"]
    /\ UNCHANGED <<pc, configVars, extractVars, jobs, n, j, k, i, workClosed, done,
                   doneClosed, calls, errored, stdout, histVars>>

Count(c, p) == IF p \in DOMAIN c THEN c[p] ELSE 0

\* "b.FetchDetails()" when the upstream answers resp, the error dropped
FetchWith(w, resp) ==
    /\ Running
    /\ wpc[w] = "fetch"
    /\ LET b == cur[w]
           r == FetchDetails(jobs[b[1]][b[2]].Builds[b[3]], resp)
       IN  /\ jobs' = [jobs EXCEPT ![b[1]][b[2]].Builds[b[3]] = r.b]
           /\ calls' = (b :> (Count(calls, b) + 1)) @@ calls
           /\ errored' = IF r.err # "nil" THEN errored \cup {b} ELSE errored
    /\ wpc' = [wpc EXCEPT ![w] = "range"]
    /\ cur' = [cur EXCEPT ![w] = NoPtr]
    /\ UNCHANGED <<pc, configVars, extractVars, n, j, k, i, chanVars, stdout, histVars>>

Fetch(w) == \E resp \in DetailInputs : FetchWith(w, resp)

\* the range loop ends on the closed, drained channel; "done <- true"
WorkerDone(w) ==
    /\ Running
    /\ wpc[w] = "range"
    /\ work = <<>>
    /\ workClosed
    /\ done < workerCount
    /\ done' = done + 1
    /\ wpc' = [wpc EXCEPT ![w] = "exited"]
    /\ UNCHANGED <<pc, configVars, extractVars, jobs, n, j, k, i, work, workClosed,
                   doneClosed, cur, calls, errored, stdout, histVars>>

Main ==
    \/ ReadConfig
    \/ ProcessInstance
    \/ InstancesDone
    \/ FetchFolder
    \/ ProcessJob
    \/ FetchJobsReturn
    \/ ExtractDone
    \/ SpawnWorker
    \/ SpawnDone
    \/ Truncate
    \/ Send
    \/ CloseWork
    \/ Join
    \/ CloseDone
    \/ Render
    \/ RenderDone

Worker(w) == Recv(w) \/ Fetch(w) \/ WorkerDone(w)

Next == Main \/ \E w \in Workers : Worker(w)

Spec == Init /\ [][Next]_vars

\* the Go scheduler runs every goroutine that can take a step, and every
\* http.Get returns
FairSpec == Spec /\ WF_vars(Main) /\ \A w \in Workers : WF_vars(Worker(w))

(***************************************************************************)
(* The rendering alone: main after close(done), with one job whose builds  *)
(* are what FetchDetails leaves of the stubs for a wider range of build    *)
(* pages than a whole run is checked with.                                 *)
(***************************************************************************)
RenderDetailInputs ==
    {HttpError}
    \cup { Decoded("result" :> JStr(result) @@ "timestamp" :> JNum(1500)
                   @@ "building" :> JBool(building) @@ "actions" :> JArr(<<TestResult(fc)>>)) :
             result \in {"SUCCESS", "FAILURE"}, building \in BOOLEAN, fc \in -2..MaxWindowFail }

\* the stub ProcessBuildObject returns for build id
Stub(id) ==
    ProcessBuildObject(JObj("_class" :> JStr(BuildClass) @@ "number" :> JNum(id)
                            @@ "url" :> JStr(BuildUrl(id)))).val

\* the build lists of up to MaxShown builds, sorted by id, after the workers
FetchedBuildLists ==
    UNION { { [x \in 1..len |-> FetchDetails(Stub(x), resps[x]).b] :
                resps \in [1..len -> RenderDetailInputs] }
            : len \in 0..MaxShown }

RenderInit ==
    /\ pc = "render"
    /\ maxBuilds = MaxShown
    /\ maxHistory \in 0..MaxShown
    /\ stdin = Decoded("maxBuilds" :> JNum(maxBuilds) @@ "maxHistory" :> JNum(maxHistory)
                       @@ "instances" :> JObj("i1" :> GoodInstance1))
    /\ served = HttpError
    /\ instancesObject = ("i1" :> GoodInstance1)
    /\ ranged = {"i1"}
    /\ instances = <<ProcessInstanceObject(GoodInstance1, "i1").val>>
    /\ \E bs \in FetchedBuildLists :
         jobs = << <<[Name |-> "b", Url |-> JobUrl("b"), Builds |-> bs]>> >>
    /\ n = 1 /\ j = 1 /\ k = 0
    /\ fjobs = <<>> /\ f = 1 /\ jobObjects = <<>> /\ folderClass = NoClass
    /\ i = workerCount
    /\ work = <<>> /\ workClosed = TRUE
    /\ done = 0 /\ doneClosed = TRUE
    /\ wpc = [w \in Workers |-> "exited"]
    /\ cur = [w \in Workers |-> NoPtr]
    /\ stdout = <<>>
    /\ requests = {[kind |-> "folder", inst |-> "i1", what |-> <<"f1/", "api/json">>],
                   [kind |-> "job", inst |-> "i1", what |-> "b"]}
    /\ excludedLog = {}
    /\ calls = [p \in {Ptr(1, 1, x) : x \in 1..Len(jobs[1][1].Builds)} |-> 1]
    /\ errored = {p \in DOMAIN calls : ~jobs[1][1].Builds[p[3]].Timestamp.set}

RenderNext == Render \/ RenderDone

RenderSpec == RenderInit /\ [][RenderNext]_vars

(***************************************************************************)
(* One FetchDetails call alone: a worker holds the only build of the only  *)
(* job, the queue is closed, and the upstream serves one page, taken from  *)
(* a wider range of "actions" arrays than a whole run is checked with.     *)
(***************************************************************************)
ActionInputs ==
    { JNum(3), JStr(TestResultClass),
      JObj("failCount" :> JNum(2)),
      JObj("_class" :> JStr("hudson.model.CauseAction") @@ "failCount" :> JNum(2)),
      JObj("_class" :> JNum(1) @@ "failCount" :> JNum(2)),
      JObj("_class" :> JStr(TestResultClass)),
      JObj("_class" :> JStr(TestResultClass) @@ "failCount" :> JStr("1")) }
    \cup {TestResult(fc) : fc \in -1..MaxFail}

ActionPages ==
    { Decoded("result" :> JStr(result) @@ "timestamp" :> JNum(1500)
              @@ "building" :> JBool(FALSE) @@ "actions" :> JArr(as)) :
        result \in {"SUCCESS", "FAILURE"}, as \in SeqsUpTo(ActionInputs, MaxActions) }
    \cup { Decoded("result" :> JStr(result) @@ "timestamp" :> JNum(1500) @@ as) :
             result \in {"SUCCESS", "FAILURE"},
             as \in {[x \in {} |-> JNull], "actions" :> JNull, "actions" :> TestResult(1)} }
    \cup { HttpError, Decoded("timestamp" :> JNum(1500) @@ "actions" :> JArr(<<TestResult(1)>>)) }

DetailInit ==
    /\ pc = "join"
    /\ maxBuilds = 10
    /\ maxHistory = 10
    /\ stdin = Decoded("instances" :> JObj("i1" :> GoodInstance1))
    /\ served \in ActionPages
    /\ instancesObject = ("i1" :> GoodInstance1)
    /\ ranged = {"i1"}
    /\ instances = <<ProcessInstanceObject(GoodInstance1, "i1").val>>
    /\ jobs = << <<[Name |-> "b", Url |-> JobUrl("b"), Builds |-> <<Stub(1)>>]>> >>
    /\ n = 2 /\ j = 1 /\ k = 0
    /\ fjobs = <<>> /\ f = 1 /\ jobObjects = <<>> /\ folderClass = NoClass
    /\ i = 0
    /\ work = <<>> /\ workClosed = TRUE
    /\ done = 0 /\ doneClosed = FALSE
    /\ wpc = [w \in Workers |-> IF w = 1 THEN "fetch" ELSE "range"]
    /\ cur = [w \in Workers |-> IF w = 1 THEN Ptr(1, 1, 1) ELSE NoPtr]
    /\ stdout = <<>>
    /\ requests = {[kind |-> "folder", inst |-> "i1", what |-> <<"f1/", "api/json">>],
                   [kind |-> "job", inst |-> "i1", what |-> "b"]}
    /\ excludedLog = {}
    /\ calls = [x \in {} |-> 0]
    /\ errored = {}

DetailNext ==
    \/ \E w \in Workers : FetchWith(w, served) \/ WorkerDone(w)
    \/ Join
    \/ CloseDone
    \/ Render
    \/ RenderDone

DetailSpec == DetailInit /\ [][DetailNext]_vars

(***************************************************************************)
(* Properties.                                                             *)
(***************************************************************************)
\* every *Build reachable from jobs
AllPtrs ==
    UNION { UNION { {Ptr(in, ij, ib) : ib \in 1..Len(jobs[in][ij].Builds)} :
                    ij \in 1..Len(jobs[in]) } :
            in \in 1..Len(jobs) }

BuildAt(p) == jobs[p[1]][p[2]].Builds[p[3]]

\* main is past the loop of receives from done
JoinPassed == doneClosed \/ (pc = "join" /\ i = workerCount)

\* the workers that hold build p
Holders(p) == {w \in Workers : cur[w] = p}

\* C1: when main passes the join on done, FetchDetails has been called exactly
\* once on every build left in a job's list after truncation; at no time has a
\* build been fetched twice or been received by more than one worker.
C1_EveryBuildFetchedOnce ==
    /\ \A p \in (DOMAIN calls \cup {cur[w] : w \in Workers}) \ {NoPtr} :
         Count(calls, p) + Cardinality(Holders(p)) <= 1
    /\ JoinPassed =>
         /\ DOMAIN calls = AllPtrs
         /\ \A p \in AllPtrs : calls[p] = 1
         /\ \A w \in Workers : cur[w] = NoPtr

C1_Witness ==
    /\ JoinPassed
    /\ Cardinality(AllPtrs) > workerCount
    /\ \A p \in AllPtrs : Count(calls, p) = 1

\* C3: no worker goroutine exists and no FetchDetails call has started while
\* main is still reading the configuration or extracting: by the time a worker
\* runs, FetchJobs has returned for every configured instance.
C3_ExtractionBarrier ==
    (\E w \in Workers : wpc[w] # "unborn") \/ DOMAIN calls # {}
        => /\ pc \notin {"config", "instances", "extract"}
           /\ Len(jobs) = Len(instances)
           /\ Len(instances) = Cardinality(DOMAIN instancesObject)
           /\ jobObjects = <<>>

C3_Witness ==
    /\ \E w \in Workers : wpc[w] = "fetch"
    /\ Len(instances) = 2
    /\ Len(jobs) = 2

AllJobs == Flatten(jobs) \o fjobs

Range(s) == {s[x] : x \in DOMAIN s}

SortedById(builds) ==
    \A x, y \in 1..Len(builds) : x < y => builds[x].Id <= builds[y].Id

Ids(builds) == [x \in 1..Len(builds) |-> builds[x].Id]

IsSuffix(s, t) == Len(s) <= Len(t) /\ s = SubSeq(t, Len(t) - Len(s) + 1, Len(t))

\* C5: every job's build list is in non-decreasing order of build id from the
\* moment ProcessJobObject returns it, and no later step reorders it: the ids
\* of a job's list only ever change to a suffix of what they were.
C5_BuildsStaySorted ==
    /\ [](\A x \in 1..Len(AllJobs) : SortedById(AllJobs[x].Builds))
    /\ [][\A in \in 1..Len(jobs) : \A ij \in 1..Len(jobs[in]) :
            /\ Len(jobs') >= in
            /\ Len(jobs'[in]) >= ij
            /\ IsSuffix(Ids(jobs'[in][ij].Builds), Ids(jobs[in][ij].Builds))]_vars

C5_Witness ==
    /\ pc = "done"
    /\ \E x \in 1..Len(AllJobs) :
         /\ Len(AllJobs[x].Builds) >= 2
         /\ AllJobs[x].Builds[1].Id < AllJobs[x].Builds[2].Id
         /\ AllJobs[x].Builds[1].Timestamp.set

NameMatches(inst, name) == \E ex \in Range(inst.Exclude) : MatchString(ex, name)

\* C6: a job whose name matches one of its instance's exclude patterns is in
\* no job list, its build listing is never requested, and no build handed to
\* a worker or to FetchDetails belongs to such a job.
C6_ExcludedNeverFetched ==
    /\ \A in \in 1..Len(jobs) : \A ij \in 1..Len(jobs[in]) :
         ~NameMatches(instances[in], jobs[in][ij].Name)
    /\ \A x \in 1..Len(fjobs) : ~NameMatches(instances[n], fjobs[x].Name)
    /\ \A r \in requests : \A inst \in Range(instances) :
         r.kind = "job" /\ r.inst = inst.Name => ~NameMatches(inst, r.what)
    /\ \A p \in (DOMAIN calls \cup Range(work) \cup Range(cur)) \ {NoPtr} :
         ~NameMatches(instances[p[1]], jobs[p[1]][p[2]].Name)

C6_Witness ==
    /\ pc = "done"
    /\ excludedLog # {}
    /\ DOMAIN calls # {}

\* the configuration on stdin has an instance that ProcessInstanceObject rejects
Malformed ==
    /\ stdin.kind = "json"
    /\ GetObject(stdin.body, "instances").ok
    /\ \E key \in DOMAIN GetObject(stdin.body, "instances").val :
         ProcessInstanceObject(GetObject(stdin.body, "instances").val[key], key).err # "nil"

\* C9: with a malformed instance in the configuration the run never gets past
\* the loop over the instances, it exits as soon as that instance is reached,
\* and no folder, job or build page is ever requested and no worker started.
C9_MalformedConfigNoNetwork ==
    Malformed =>
        /\ pc \in {"config", "instances", "exit"}
        /\ \A key \in ranged :
             ProcessInstanceObject(instancesObject[key], key).err # "nil" => pc = "exit"
        /\ requests = {}
        /\ DOMAIN calls = {}
        /\ \A w \in Workers : wpc[w] = "unborn"

C9_Witness ==
    /\ Malformed
    /\ pc = "exit"
    /\ Len(instances) >= 1

\* main is at the head of the loop body for jobs[n][j], about to truncate it
AtTruncation == pc = "enqueue" /\ n <= Len(jobs) /\ k = 0

\* C4: whatever maxBuilds is configured, the truncation of a job's list
\* completes and leaves at most maxBuilds builds, namely the last (highest-id)
\* maxBuilds of the list it had, the whole list when it was shorter; and a
\* build in the work queue, held by a worker or passed to FetchDetails is one
\* of a truncated list.
C4_RetainsHighestIds ==
    /\ [][AtTruncation /\ <<pc, n, j, k>>' # <<pc, n, j, k>> =>
            LET pre  == jobs[n][j].Builds
                post == jobs'[n][j].Builds
            IN  /\ pc' = "enqueue"
                /\ Len(post) <= maxBuilds
                /\ Len(post) = Min(Len(pre), maxBuilds)
                /\ IsSuffix(post, pre)
                /\ \A x \in 1..(Len(pre) - Len(post)) : \A y \in 1..Len(post) :
                     pre[x].Id <= post[y].Id]_vars
    /\ [](\A p \in (DOMAIN calls \cup Range(work) \cup Range(cur)) \ {NoPtr} :
            /\ p[3] <= Len(jobs[p[1]][p[2]].Builds)
            /\ Len(jobs[p[1]][p[2]].Builds) <= maxBuilds)

\* the truncations that do complete keep the highest ids
C4_TruncationDropsOldest ==
    /\ pc = "done"
    /\ maxBuilds = 1
    /\ \E in \in 1..Len(jobs) : \E ij \in 1..Len(jobs[in]) :
         /\ Len(jobs[in][ij].Builds) = 1
         /\ jobs[in][ij].Builds[1].Id = MaxId
         /\ Count(calls, Ptr(in, ij, 1)) = 1

\* the goroutines of the detail-fetch phase are all gone and the channels are
\* as the protocol leaves them
FetchPhaseOver ==
    /\ workClosed /\ work = <<>>
    /\ doneClosed /\ done = 0
    /\ i = workerCount
    /\ \A w \in Workers : wpc[w] = "exited" /\ cur[w] = NoPtr
    /\ DOMAIN calls = AllPtrs

\* the done signals main has received
Received == IF pc = "spawn" \/ pc = "enqueue" \/ ~workClosed THEN 0 ELSE i

\* C2: the detail-fetch phase neither deadlocks nor aborts, whatever the
\* number of builds: while it lasts some goroutine can take a step, main
\* never stops inside it, and when main is past it the queue is closed and
\* drained, every worker has sent its one done signal and exited, and main has
\* received workerCount of them.
C2_FetchPhaseTerminates ==
    /\ pc \in {"spawn", "enqueue", "join"} => ENABLED Next
    /\ pc = "panic" => doneClosed
    /\ pc \in {"render", "done"} \/ doneClosed => FetchPhaseOver
    /\ done + Received = Cardinality({w \in Workers : wpc[w] = "exited"})

\* the phase does end as described when the truncation does not abort it:
\* more builds than the queue holds, all fetched, main at rendering
C2_MoreBuildsThanQueue ==
    /\ pc = "render"
    /\ FetchPhaseOver
    /\ Cardinality(AllPtrs) > workerCount

\* the rows printed for jobs[in][ij], and where the trailing window of
\* maxHistory builds starts in its list (the builds after WindowStart are shown)
RowsOf(in, ij) == {x \in 1..Len(stdout) : stdout[x].at = <<in, ij>>}

WindowStart(in, ij) ==
    IF maxHistory > Len(jobs[in][ij].Builds) THEN 0 ELSE Len(jobs[in][ij].Builds) - maxHistory

Pad(in, ij) ==
    IF maxHistory > Len(jobs[in][ij].Builds) THEN maxHistory - Len(jobs[in][ij].Builds) ELSE 0

InWindow(p) == p[3] > WindowStart(p[1], p[2])

\* the entry of a row for the build at p, a build of the window
Entry(row, p) == row.history[Pad(p[1], p[2]) + p[3] - WindowStart(p[1], p[2])]

ShownBuilding(row, p) ==
    /\ InWindow(p)
    /\ Entry(row, p).kind = "a"
    /\ Entry(row, p).href = BuildAt(p).Url
    /\ Entry(row, p).title = "building"
    /\ Entry(row, p).spark = "B"

IsStub(b) == ~b.Complete /\ b.Failures = 0 /\ b.Timestamp = ZeroTime

\* what C7 says of a build whose fetch failed, up to the rendering
ErrorLeavesStub ==
    /\ \A p \in errored : IsStub(BuildAt(p)) /\ Count(calls, p) = 1
    /\ \A p \in DOMAIN calls : calls[p] <= 1
    /\ doneClosed => \A p \in AllPtrs : Count(calls, p) = 1

\* a FetchDetails call that fails changes no build and stops neither main
\* nor the worker, and a build whose fetch failed is never written again
ErrorDiscarded ==
    /\ errored' # errored =>
         /\ jobs' = jobs
         /\ pc' = pc
         /\ \A w \in Workers : wpc'[w] # wpc[w] => wpc'[w] = "range"
    /\ \A p \in errored : jobs'[p[1]][p[2]].Builds[p[3]] = BuildAt(p)

\* C7 (as amended): a FetchDetails call that fails leaves the build a stub,
\* the worker drops the error and goes on, every build is still attempted
\* exactly once, the run reaches the rendering phase, and in every row
\* printed for its job the build is shown as "building" when it is among the
\* last maxHistory builds of the job; a build before that window is on no row.
C7_FailedFetchLeavesStub ==
    /\ [](ErrorLeavesStub)
    /\ [][ErrorDiscarded]_vars
    /\ [](\A p \in errored : \A x \in RowsOf(p[1], p[2]) :
            /\ Len(stdout[x].history)
                 = Pad(p[1], p[2]) + Len(jobs[p[1]][p[2]].Builds) - WindowStart(p[1], p[2])
            /\ InWindow(p) => ShownBuilding(stdout[x], p))
    /\ (errored # {}) ~> doneClosed

C7_Witness ==
    /\ pc = "done"
    /\ \E p \in errored : \E x \in RowsOf(p[1], p[2]) : ShownBuilding(stdout[x], p)
    /\ \E p \in AllPtrs \ errored : BuildAt(p).Complete

\* C7 as stated: every build whose fetch failed is shown as in progress once
\* the run has rendered.
C7_FailedFetchAlwaysShown ==
    /\ ErrorLeavesStub
    /\ pc = "done" =>
         \A p \in errored :
            /\ RowsOf(p[1], p[2]) # {}
            /\ \A x \in RowsOf(p[1], p[2]) : ShownBuilding(stdout[x], p)

\* the builds of jobs[in][ij] that RenderHistory(maxHistory) shows
Window(in, ij) == {Ptr(in, ij, b) : b \in (WindowStart(in, ij) + 1)..Len(jobs[in][ij].Builds)}

CompleteIn(in, ij) == {p \in Window(in, ij) : BuildAt(p).Complete}

Largest(S) == CHOOSE m \in S : \A x \in S : x <= m

\* the position in the alphabet of the glyph printed for a build
GlyphIndex(row, p) == CHOOSE g \in 0..7 : sparks[g + 1] = Entry(row, p).spark

\* C8: in every row printed, a complete build of the window with no failures
\* has glyph 0, one with failures -1 glyph 7, and one with f >= 1 failures has
\* f <= max and glyph 1 + floor(6 * f / max), which lies in 1..7 and does not
\* decrease with f; the index leaves the alphabet (the rendering stops) only
\* for a complete build with failures below -1.
C8_GlyphIndex ==
    /\ \A x \in 1..Len(stdout) :
         LET in  == stdout[x].at[1]
             ij  == stdout[x].at[2]
             max == Largest({0} \cup {BuildAt(p).Failures : p \in Window(in, ij)})
         IN  /\ \A p \in CompleteIn(in, ij) :
                  LET fl == BuildAt(p).Failures
                  IN  /\ Entry(stdout[x], p).spark \in Range(sparks)
                      /\ fl = 0 => GlyphIndex(stdout[x], p) = 0
                      /\ fl = -1 => GlyphIndex(stdout[x], p) = 7
                      /\ fl >= 1 =>
                           /\ fl <= max
                           /\ GlyphIndex(stdout[x], p) = 1 + ((6 * fl) \div max)
                           /\ GlyphIndex(stdout[x], p) \in 1..7
             /\ \A p, q \in CompleteIn(in, ij) :
                  1 <= BuildAt(p).Failures /\ BuildAt(p).Failures <= BuildAt(q).Failures
                      => GlyphIndex(stdout[x], p) <= GlyphIndex(stdout[x], q)
    /\ pc = "panic" /\ doneClosed =>
         \E p \in CompleteIn(n, j) : BuildAt(p).Failures < -1

C8_Witness ==
    /\ pc = "done"
    /\ \E x \in 1..Len(stdout) : \E p, q, r \in CompleteIn(stdout[x].at[1], stdout[x].at[2]) :
         /\ BuildAt(p).Failures = -1 /\ GlyphIndex(stdout[x], p) = 7
         /\ BuildAt(q).Failures = 1 /\ GlyphIndex(stdout[x], q) \in 2..6
         /\ BuildAt(r).Failures > 1 /\ GlyphIndex(stdout[x], r) = 7

\* C10: the glyph of a complete build with f >= 1 failures is the one that
\* the largest failures value among the complete builds of the window gives;
\* the failures of a build in progress do not count.
C10_MaxOverCompleteBuilds ==
    \A x \in 1..Len(stdout) :
        LET in == stdout[x].at[1]
            ij == stdout[x].at[2]
            max == Largest({0} \cup {BuildAt(p).Failures : p \in CompleteIn(in, ij)})
        IN  \A p \in CompleteIn(in, ij) :
                BuildAt(p).Failures >= 1 =>
                    GlyphIndex(stdout[x], p) = 1 + ((6 * BuildAt(p).Failures) \div max)

\* FetchJobs is in the loop over the jobs of a folder whose response has the
\* folder type as its "_class"
FolderTagged == folderClass.ok /\ folderClass.val = FolderClass

\* C11: FetchJobs processes the "jobs" entries of a folder response only when
\* its "_class" is the folder type: otherwise none of its entries is
\* processed, no job listing is requested for it and no job is added; and
\* when FetchJobs has returned for an instance every folder of the instance
\* has been requested.
C11_UntaggedFolderSkipped ==
    /\ [](jobObjects # <<>> => FolderTagged)
    /\ [][jobObjects # <<>> /\ (requests' # requests \/ fjobs' # fjobs) => FolderTagged]_vars
    /\ [](\A in \in 1..Len(jobs) : \A x \in 1..Len(instances[in].Folders) :
            Request("folder", instances[in].Name, instances[in].Folders[x]) \in requests)

\* the folders after a folder that yields no jobs are still scanned
C11_RemainingFoldersScanned ==
    /\ pc = "done"
    /\ \E in \in 1..Len(jobs) :
         /\ Len(instances[in].Folders) = 2
         /\ jobs[in] # <<>>
         /\ \A x \in 1..2 :
              Request("folder", instances[in].Name, instances[in].Folders[x]) \in requests

\* the entries of a page's "actions" that are test-result actions, by position
TestResultActions(page) ==
    IF "actions" \in DOMAIN page /\ page["actions"].t = "arr"
    THEN {x \in 1..Len(page["actions"].v) :
            /\ page["actions"].v[x].t = "obj"
            /\ "_class" \in DOMAIN page["actions"].v[x].v
            /\ page["actions"].v[x].v["_class"] = JStr(TestResultClass)}
    ELSE {}

\* the failCount of the last test-result action: 0 when there is none, or
\* when it has no numeric failCount
LastFailCount(page) ==
    IF TestResultActions(page) = {} THEN 0
    ELSE LET last == page["actions"].v[Largest(TestResultActions(page))].v
         IN  IF "failCount" \in DOMAIN last /\ last["failCount"].t = "num"
             THEN last["failCount"].v
             ELSE 0

\* the one FetchDetails call has been made and returned nil
Fetched == Count(calls, Ptr(1, 1, 1)) = 1 /\ errored = {}

\* C12: after a successful FetchDetails the build's failures is the failCount
\* of the last test-result action of the page's "actions" (0 for none, and
\* for one without a numeric failCount), whatever precedes or follows it,
\* except that 0 becomes -1 when result is "FAILURE"; a non-zero count is
\* stored as it is.
C12_LastFailCountWins ==
    Fetched =>
        LET fl == BuildAt(Ptr(1, 1, 1)).Failures
            count == LastFailCount(served.body)
        IN  /\ count # 0 => fl = count
            /\ count = 0 /\ served.body["result"] = JStr("FAILURE") => fl = -1
            /\ count = 0 /\ served.body["result"] # JStr("FAILURE") => fl = 0

C12_Witness ==
    /\ Fetched
    /\ pc = "done"
    /\ served.body["result"] = JStr("FAILURE")
    /\ Cardinality(TestResultActions(served.body)) = 2
    /\ Largest(TestResultActions(served.body)) = 2
    /\ Len(served.body["actions"].v) = 3
    /\ served.body["actions"].v[1] = TestResult(1)
    /\ BuildAt(Ptr(1, 1, 1)).Failures = MaxFail

====
